---- MODULE Spec2Model ----
(***************************************************************************)
(* Collaboration core of the idea backend: the share records that grant    *)
(* access to an idea (app/services/share.py), the comment store and the    *)
(* threaded read built from it (app/services/comment.py), and the HTTP     *)
(* routes in front of them (app/routers/comment.py, app/routers/share.py). *)
(* The hosted datastore is modelled by the tables the services query:      *)
(* `shares` is idea_shares, `comments` is the comments table.              *)
(***************************************************************************)
EXTENDS Integers, Sequences, FiniteSets, TLC

\* ---------------------------------------------------------------- bounds
MaxComments == 3      \* rows the comments table may hold
MaxTime == 2          \* last instant of the clock (instants are 1..MaxTime)

\* ------------------------------------------------------------- fixtures
\* Python None / SQL NULL in an id or timestamp column (ids and instants
\* are positive).
None == 0
\* None in a text column or in the role returned with a denial.
NoneStr == "None"

Users == {"A", "B"}
Ideas == {"I1", "I2"}
Features == {"F1"}
\* ideas.user_id: the owner of each idea.
ideaOwner(idea) == IF idea = "I1" THEN "A" ELSE "B"
\* features.idea_id: the idea a feature belongs to.
featureIdea(feature) == "I1"
\* ShareRole.VIEWER, ShareRole.EDITOR
Roles == {"viewer", "editor"}
Times == 1..MaxTime
\* idea_shares.id: an opaque key, one per row; a row is named here by the
\* pair it was created for (create_share admits one row per pair).
ShareIds == Ideas \X Users
Contents == {"hello"}

\* stats is the user_stats row of the one user whose statistics are
\* followed, achievements the achievement types that user holds, and calls
\* the requests in flight: for each worker the handler it runs and how far
\* that handler has got.
VARIABLES shares, comments, now, resp, stats, achievements, calls
vars == <<shares, comments, now, resp, stats, achievements, calls>>

\* No user_stats row yet.
NoStats == [exists |-> FALSE]

\* The workers that handle requests side by side, and a worker at rest.
Procs == {"p1", "p2"}
IdleCall == [op |-> "none", pc |-> "idle", user |-> NoneStr, target |-> None,
             arg |-> None, seen |-> None, status |-> None]
NoCalls == [p \in Procs |-> IdleCall]

\* A step of the comment and share routes handled one at a time leaves
\* the statistics and the workers alone.
StoreOnly == UNCHANGED <<stats, achievements, calls>>

\* A comment and share store with no statistics kept and no request in
\* flight.
AtRest == stats = NoStats /\ achievements = {} /\ calls = NoCalls

\* ------------------------------------------------------------ responses
\* resp is the HTTP response to the request handled last: the route, the
\* caller, the id in the path, what the request asked, the status code and
\* the comments in the body.
Response(op, user, target, req, status, body) ==
    [op |-> op, user |-> user, target |-> target, req |-> req,
     status |-> status, body |-> body]

NoResponse == Response("none", NoneStr, NoneStr, <<>>, None, <<>>)

\* -------------------------------------------------------------- shares
\* ShareService.check_idea_access: owner first, then a share row for
\* (idea, user) with is_active = true; expires_at is not consulted.
\* With several matching rows the service takes data[0].
ActiveSharesIgnoringFlag(idea, user) ==
    {s \in shares : s.idea_id = idea /\ s.shared_with_id = user}

ActiveShares(idea, user) ==
    {s \in shares : s.idea_id = idea /\ s.shared_with_id = user /\ s.is_active}

\* A gate that lets a caller without a share in as a viewer.
CheckIdeaAccessOpen(idea, user) ==
    IF ideaOwner(idea) = user
    THEN [has_access |-> TRUE, role |-> "owner"]
    ELSE IF ActiveShares(idea, user) # {}
         THEN [has_access |-> TRUE,
               role |-> (CHOOSE s \in ActiveShares(idea, user) : TRUE).role]
         ELSE [has_access |-> TRUE, role |-> "viewer"]

\* A gate that remembers an earlier grant: a caller who has a comment on
\* the idea is let in as an editor without a look at the shares.
CheckIdeaAccessCached(idea, user) ==
    IF ideaOwner(idea) = user
    THEN [has_access |-> TRUE, role |-> "owner"]
    ELSE IF \E k \in 1..Len(comments) :
                comments[k].user_id = user /\ comments[k].idea_id = idea
         THEN [has_access |-> TRUE, role |-> "editor"]
         ELSE IF ActiveShares(idea, user) # {}
              THEN [has_access |-> TRUE,
                    role |-> (CHOOSE s \in ActiveShares(idea, user) : TRUE).role]
              ELSE [has_access |-> FALSE, role |-> NoneStr]

CheckIdeaAccess(idea, user) ==
    IF ideaOwner(idea) = user
    THEN [has_access |-> TRUE, role |-> "owner"]
    ELSE IF ActiveShares(idea, user) # {}
         THEN [has_access |-> TRUE,
               role |-> (CHOOSE s \in ActiveShares(idea, user) : TRUE).role]
         ELSE [has_access |-> FALSE, role |-> NoneStr]

\* ShareService.create_share behind POST /api/ideas/{idea_id}/share: the
\* router answers 400 for NotFound, Validation and Forbidden alike.
CreateShare(owner_id, idea, email, role, expires_at) ==
    LET req == [email |-> email]
        refused == \/ ideaOwner(idea) # owner_id
                   \/ email \notin Users
                   \/ \E s \in shares : s.idea_id = idea /\ s.shared_with_id = email
    IN  IF refused
        THEN /\ resp' = Response("create_share", owner_id, idea, req, 400, <<>>)
             /\ UNCHANGED <<shares, comments, now>>
        ELSE /\ shares' = shares \cup
                    {[id |-> <<idea, email>>, idea_id |-> idea, owner_id |-> owner_id,
                      shared_with_id |-> email, role |-> role, is_active |-> TRUE,
                      expires_at |-> expires_at]}
             /\ resp' = Response("create_share", owner_id, idea, req, 201, <<>>)
             /\ UNCHANGED <<comments, now>>

\* ShareUpdate bodies: `fields` is the set of fields the request set
\* (update_data.dict(exclude_unset=True) keeps exactly those); a field not
\* set carries its default and is ignored.
ShareUpdates ==
    {u \in [fields : SUBSET {"role", "is_active", "expires_at"},
            role : Roles, is_active : BOOLEAN, expires_at : {None} \cup Times] :
        /\ "role" \notin u.fields => u.role = "viewer"
        /\ "is_active" \notin u.fields => u.is_active = TRUE
        /\ "expires_at" \notin u.fields => u.expires_at = None}

ApplyShareUpdate(s, u) ==
    [s EXCEPT !.role = IF "role" \in u.fields THEN u.role ELSE @,
              !.is_active = IF "is_active" \in u.fields THEN u.is_active ELSE @,
              !.expires_at = IF "expires_at" \in u.fields THEN u.expires_at ELSE @]

\* An update_share that a holder of the share may issue as well.
UpdateShareByHolder(share_id, owner_id, update_data) ==
    LET found == {s \in shares : /\ s.id = share_id
                                 /\ owner_id \in {s.owner_id, s.shared_with_id}}
        req == [is_active |-> IF "is_active" \in update_data.fields
                              THEN <<update_data.is_active>> ELSE <<>>]
    IN  IF found = {}
        THEN /\ resp' = Response("update_share", owner_id, share_id, req, 403, <<>>)
             /\ UNCHANGED <<shares, comments, now>>
        ELSE /\ shares' = {IF s.id = share_id THEN ApplyShareUpdate(s, update_data) ELSE s :
                              s \in shares}
             /\ resp' = Response("update_share", owner_id, share_id, req, 200, <<>>)
             /\ UNCHANGED <<comments, now>>

\* ShareService.update_share behind PUT /api/ideas/{idea_id}/share/{share_id}.
UpdateShare(share_id, owner_id, update_data) ==
    LET found == {s \in shares : s.id = share_id /\ s.owner_id = owner_id}
        req == [is_active |-> IF "is_active" \in update_data.fields
                              THEN <<update_data.is_active>> ELSE <<>>]
    IN  IF found = {}
        THEN /\ resp' = Response("update_share", owner_id, share_id, req, 403, <<>>)
             /\ UNCHANGED <<shares, comments, now>>
        ELSE /\ shares' = {IF s.id = share_id THEN ApplyShareUpdate(s, update_data) ELSE s :
                              s \in shares}
             /\ resp' = Response("update_share", owner_id, share_id, req, 200, <<>>)
             /\ UNCHANGED <<comments, now>>

\* The rows of a set, listed one after the other. (The rows carry no
\* shared_at, so the order of the listing is left open.)
RECURSIVE Listing(_)
Listing(rows) ==
    IF rows = {} THEN <<>>
    ELSE LET r == CHOOSE x \in rows : TRUE
         IN  <<r>> \o Listing(rows \ {r})

\* ShareService.get_idea_shares behind GET /api/ideas/{idea_id}/shares:
\* only the owner of the idea is shown its shares.
GetIdeaShares(idea, user) ==
    /\ IF ideaOwner(idea) # user
       THEN resp' = Response("get_idea_shares", user, idea, <<>>, 403, <<>>)
       ELSE resp' = Response("get_idea_shares", user, idea, <<>>, 200,
                             Listing({s \in shares : s.idea_id = idea}))
    /\ UNCHANGED <<shares, comments, now>>

\* ShareService.delete_share behind DELETE /api/ideas/{idea_id}/share/{share_id}.
DeleteShare(share_id, owner_id) ==
    LET found == {s \in shares : s.id = share_id /\ s.owner_id = owner_id}
    IN  IF found = {}
        THEN /\ resp' = Response("delete_share", owner_id, share_id, <<>>, 403, <<>>)
             /\ UNCHANGED <<shares, comments, now>>
        ELSE /\ shares' = {s \in shares : s.id # share_id}
             /\ resp' = Response("delete_share", owner_id, share_id, <<>>, 204, <<>>)
             /\ UNCHANGED <<comments, now>>

\* ------------------------------------------------------------- comments
\* A CommentResponse: the row's fields and the list of replies.
RECURSIVE CommentNode(_, _)

\* comments_dict membership: the listing holds a row with this id.
InDict(listing, id) == \E k \in 1..Len(listing) : listing[k].id = id

\* root_comments: the rows with parent_comment_id None, in listing order.
RootComments(listing) == SelectSeq(listing, LAMBDA c : c.parent_comment_id = None)

\* Replies attached to root comments only.
RepliesToRootsOnly(listing, id) ==
    SelectSeq(listing, LAMBDA c :
        /\ c.parent_comment_id = id
        /\ \E k \in 1..Len(listing) :
              listing[k].id = id /\ listing[k].parent_comment_id = None)

\* parent.replies after the second pass: every row whose parent id is set
\* and in comments_dict is appended to that parent, in listing order.
Replies(listing, id) ==
    SelectSeq(listing, LAMBDA c : /\ c.parent_comment_id # None
                                   /\ InDict(listing, c.parent_comment_id)
                                   /\ c.parent_comment_id = id)

CommentNode(listing, c) ==
    [id |-> c.id, parent_comment_id |-> c.parent_comment_id, content |-> c.content,
     created_at |-> c.created_at,
     replies |-> [k \in 1..Len(Replies(listing, c.id)) |->
                     CommentNode(listing, Replies(listing, c.id)[k])]]

\* Python's s[lo:hi] on a list: a negative bound counts from the end, and
\* both bounds are clamped to the list.
PyIndex(k, n) == IF k < 0 THEN (IF k + n < 0 THEN 0 ELSE k + n)
                 ELSE (IF k > n THEN n ELSE k)

PySlice(s, lo, hi) ==
    LET a == PyIndex(lo, Len(s))
        b == PyIndex(hi, Len(s))
    IN  IF a < b THEN [k \in 1..(b - a) |-> s[a + k]] ELSE <<>>

\* root_comments[offset:limit]
PaginateRootsEndAtLimit(roots, limit, offset) == PySlice(roots, offset, limit)

\* root_comments[offset:offset + limit]
PaginateRoots(roots, limit, offset) == PySlice(roots, offset, offset + limit)

\* The tree CommentService.get_idea_comments builds from the rows the
\* store listed, as the router serialises it.
BuildCommentTree(listing, limit, offset) ==
    LET page == PaginateRoots(RootComments(listing), limit, offset)
    IN  [k \in 1..Len(page) |-> CommentNode(listing, page[k])]

\* The rows of one idea's thread, in insertion order.
ThreadOf(idea) == SelectSeq(comments, LAMBDA c : c.idea_id = idea)

\* The thread's rows in any order.
ListByIdeaUnordered(idea) ==
    LET t == ThreadOf(idea)
        n == Len(t)
    IN  IF n = 0 THEN {<<>>}
        ELSE {[k \in 1..n |-> t[p[k]]] :
                 p \in {q \in [1..n -> 1..n] : \A j, k \in 1..n : j # k => q[j] # q[k]}}

\* select("*").eq("idea_id", ...).order("created_at"): the thread's rows in
\* ascending created_at; rows with equal created_at come in any order.
ListByIdea(idea) ==
    LET t == ThreadOf(idea)
        n == Len(t)
    IN  IF n = 0 THEN {<<>>}
        ELSE {[k \in 1..n |-> t[p[k]]] :
                 p \in {q \in [1..n -> 1..n] :
                          /\ \A j, k \in 1..n : j # k => q[j] # q[k]
                          /\ \A j, k \in 1..n :
                                j < k => t[q[j]].created_at <= t[q[k]].created_at}}

\* A row that, for a comment on a feature, also names the feature's idea.
NewCommentWithIdeaOfFeature(user, idea, feature, content, parent) ==
    [id |-> Len(comments) + 1, user_id |-> user,
     idea_id |-> IF idea = NoneStr THEN featureIdea(feature) ELSE idea,
     feature_id |-> feature, parent_comment_id |-> parent, content |-> content,
     created_at |-> now, updated_at |-> now]

\* The row both create paths insert: comment_data of create_idea_comment
\* carries idea_id and no feature_id, that of create_feature_comment
\* feature_id and no idea_id; the store assigns id and timestamps.
NewComment(user, idea, feature, content, parent) ==
    [id |-> Len(comments) + 1, user_id |-> user, idea_id |-> idea,
     feature_id |-> feature, parent_comment_id |-> parent, content |-> content,
     created_at |-> now, updated_at |-> now]

MayCreateEditorsOnly(access) == access.has_access /\ access.role \in {"owner", "editor"}

\* The guard of both create paths: has_access alone decides, the role is
\* not looked at.
MayCreate(access) == access.has_access

\* The guard of the read path.
MayRead(access) == access.has_access

\* CommentService.create_idea_comment behind POST /api/ideas/{idea_id}/comments.
CreateIdeaComment(user, idea, content, parent) ==
    LET access == CheckIdeaAccess(idea, user)
        row == NewComment(user, idea, NoneStr, content, parent)
    IN  IF ~MayCreate(access)
        THEN /\ resp' = Response("create_idea_comment", user, idea, parent, 403, <<>>)
             /\ UNCHANGED <<shares, comments, now>>
        ELSE /\ Len(comments) < MaxComments
             /\ comments' = Append(comments, row)
             /\ resp' = Response("create_idea_comment", user, idea, parent, 201,
                                 <<CommentNode(<<>>, row)>>)
             /\ UNCHANGED <<shares, now>>

\* A feature with an access list of its own: only the owner of its idea.
FeatureAccessOwnACL(feature, user) ==
    IF ideaOwner(featureIdea(feature)) = user
    THEN [has_access |-> TRUE, role |-> "owner"]
    ELSE [has_access |-> FALSE, role |-> NoneStr]

\* The access check of create_feature_comment: the gate, asked about the
\* idea the feature's row names.
FeatureAccess(feature, user) == CheckIdeaAccess(featureIdea(feature), user)

\* CommentService.create_feature_comment behind
\* POST /api/features/{feature_id}/comments: a feature id without a row
\* raises NotFoundError, which the router answers 403 like ForbiddenError;
\* access is that of the feature's idea.
CreateFeatureComment(user, feature, content, parent) ==
    LET access == FeatureAccess(feature, user)
        row == NewComment(user, NoneStr, feature, content, parent)
    IN  IF feature \notin Features
        THEN /\ resp' = Response("create_feature_comment", user, feature, parent, 403, <<>>)
             /\ UNCHANGED <<shares, comments, now>>
        ELSE IF ~MayCreate(access)
        THEN /\ resp' = Response("create_feature_comment", user, feature, parent, 403, <<>>)
             /\ UNCHANGED <<shares, comments, now>>
        ELSE /\ Len(comments) < MaxComments
             /\ comments' = Append(comments, row)
             /\ resp' = Response("create_feature_comment", user, feature, parent, 201,
                                 <<CommentNode(<<>>, row)>>)
             /\ UNCHANGED <<shares, now>>

ValidQueryOffsetOnly(limit, offset) == offset >= 0

\* Query(50, ge=1, le=100) and Query(0, ge=0) of the read route: a request
\* outside them is answered 422 before the handler runs.
ValidQuery(limit, offset) == limit >= 1 /\ limit <= 100 /\ offset >= 0

\* GET /api/ideas/{idea_id}/comments: the router's validation, then
\* CommentService.get_idea_comments.
GetIdeaComments(user, idea, limit, offset) ==
    LET req == [limit |-> limit, offset |-> offset]
        access == CheckIdeaAccess(idea, user)
    IN  /\ UNCHANGED <<shares, comments, now>>
        /\ IF ~ValidQuery(limit, offset)
           THEN resp' = Response("get_idea_comments", user, idea, req, 422, <<>>)
           ELSE IF ~MayRead(access)
           THEN resp' = Response("get_idea_comments", user, idea, req, 403, <<>>)
           ELSE \E listing \in ListByIdea(idea) :
                    resp' = Response("get_idea_comments", user, idea, req, 200,
                                     BuildCommentTree(listing, limit, offset))

\* The sentinel delete_comment writes in place of the content.
DeletedContent == "[deleted]"

\* The rows a request may name without a look at their author.
OwnRowsAnyAuthor(comment_id, user) ==
    {k \in 1..Len(comments) : comments[k].id = comment_id}

\* select("*").eq("id", comment_id).eq("user_id", user_id): the rows of
\* that id written by the caller.
OwnRows(comment_id, user) ==
    {k \in 1..Len(comments) : comments[k].id = comment_id /\ comments[k].user_id = user}

\* An update without its id filter: every row takes the content.
ContentUpdatedEveryRow(rows, comment_id, content) ==
    [k \in 1..Len(rows) |-> [rows[k] EXCEPT !.content = content]]

\* update({"content": ...}).eq("id", comment_id): the table after the
\* update; content is the one column the request writes.
ContentUpdated(rows, comment_id, content) ==
    [k \in 1..Len(rows) |->
        IF rows[k].id = comment_id THEN [rows[k] EXCEPT !.content = content]
        ELSE rows[k]]

\* A delete that removes the row.
HardDeleted(rows, comment_id) == SelectSeq(rows, LAMBDA c : c.id # comment_id)

\* A delete that also cuts the comment off its parent.
SoftDeletedDetached(rows, comment_id) ==
    [k \in 1..Len(rows) |->
        IF rows[k].id = comment_id
        THEN [rows[k] EXCEPT !.content = DeletedContent, !.parent_comment_id = None]
        ELSE rows[k]]

\* update({"content": "[deleted]"}).eq("id", comment_id): the table after
\* a soft delete.
SoftDeleted(rows, comment_id) == ContentUpdated(rows, comment_id, DeletedContent)

\* CommentService.update_comment behind PUT /api/comments/{comment_id}.
UpdateComment(comment_id, user, content) ==
    LET req == [content |-> content]
        rows == ContentUpdated(comments, comment_id, content)
    IN  IF OwnRows(comment_id, user) = {}
        THEN /\ resp' = Response("update_comment", user, comment_id, req, 403, <<>>)
             /\ UNCHANGED <<shares, comments, now>>
        ELSE /\ comments' = rows
             /\ resp' = Response("update_comment", user, comment_id, req, 200,
                    <<CommentNode(<<>>, rows[CHOOSE k \in 1..Len(rows) : rows[k].id = comment_id])>>)
             /\ UNCHANGED <<shares, now>>

\* CommentService.delete_comment behind DELETE /api/comments/{comment_id}.
DeleteComment(comment_id, user) ==
    IF OwnRows(comment_id, user) = {}
    THEN /\ resp' = Response("delete_comment", user, comment_id, <<>>, 403, <<>>)
         /\ UNCHANGED <<shares, comments, now>>
    ELSE /\ comments' = SoftDeleted(comments, comment_id)
         /\ resp' = Response("delete_comment", user, comment_id, <<>>, 204, <<>>)
         /\ UNCHANGED <<shares, now>>

\* ------------------------------------------------------- store faults
\* A request meets the store with one table out of order: every call on
\* that table raises. "none" is the store in order.
Tables == {"ideas", "idea_shares", "features", "comments"}

\* A gate that answers a failed lookup by letting the caller in.
CheckIdeaAccessFailedOpen(idea, user) == [has_access |-> TRUE, role |-> "viewer"]

\* check_idea_access when a lookup raised: the except clause logs and
\* returns (False, None).
CheckIdeaAccessFailed(idea, user) == [has_access |-> FALSE, role |-> NoneStr]

\* The gate calls the failing table: ideas is asked first, idea_shares
\* only when the caller is not the owner.
GateReaches(idea, user, down) ==
    \/ down = "ideas"
    \/ down = "idea_shares" /\ ideaOwner(idea) # user

\* ShareService.check_idea_access over a store with that table failing.
CheckIdeaAccessDown(idea, user, down) ==
    IF GateReaches(idea, user, down) THEN CheckIdeaAccessFailed(idea, user)
    ELSE CheckIdeaAccess(idea, user)

\* create_idea_comment over such a store: a denial is answered 403; a
\* raising insert is caught, re-raised as ValidationError and answered 400.
CreateIdeaCommentDown(user, idea, content, parent, down) ==
    LET access == CheckIdeaAccessDown(idea, user, down)
        req == [parent |-> parent, down |-> down]
        row == NewComment(user, idea, NoneStr, content, parent)
    IN  /\ down \in {"none", "ideas", "idea_shares", "comments"}
        /\ \/ down = "none"
           \/ GateReaches(idea, user, down)
           \/ down = "comments" /\ MayCreate(access)
        /\ IF ~MayCreate(access)
           THEN /\ resp' = Response("create_idea_comment", user, idea, req, 403, <<>>)
                /\ UNCHANGED <<shares, comments, now>>
           ELSE IF down = "comments"
           THEN /\ resp' = Response("create_idea_comment", user, idea, req, 400, <<>>)
                /\ UNCHANGED <<shares, comments, now>>
           ELSE /\ Len(comments) < MaxComments
                /\ comments' = Append(comments, row)
                /\ resp' = Response("create_idea_comment", user, idea, req, 201,
                                    <<CommentNode(<<>>, row)>>)
                /\ UNCHANGED <<shares, now>>

\* create_feature_comment over such a store: a raising features lookup
\* or insert is re-raised as ValidationError and answered 400.
CreateFeatureCommentDown(user, feature, content, parent, down) ==
    LET access == CheckIdeaAccessDown(featureIdea(feature), user, down)
        req == [parent |-> parent, down |-> down]
        row == NewComment(user, NoneStr, feature, content, parent)
    IN  /\ down \in {"none"} \cup Tables
        /\ \/ down \in {"none", "features"}
           \/ feature \in Features /\ GateReaches(featureIdea(feature), user, down)
           \/ feature \in Features /\ down = "comments" /\ MayCreate(access)
        /\ IF down = "features"
           THEN /\ resp' = Response("create_feature_comment", user, feature, req, 400, <<>>)
                /\ UNCHANGED <<shares, comments, now>>
           ELSE IF feature \notin Features \/ ~MayCreate(access)
           THEN /\ resp' = Response("create_feature_comment", user, feature, req, 403, <<>>)
                /\ UNCHANGED <<shares, comments, now>>
           ELSE IF down = "comments"
           THEN /\ resp' = Response("create_feature_comment", user, feature, req, 400, <<>>)
                /\ UNCHANGED <<shares, comments, now>>
           ELSE /\ Len(comments) < MaxComments
                /\ comments' = Append(comments, row)
                /\ resp' = Response("create_feature_comment", user, feature, req, 201,
                                    <<CommentNode(<<>>, row)>>)
                /\ UNCHANGED <<shares, now>>

\* get_idea_comments over such a store, for a query the route admits: the
\* service re-raises a raising listing as ValidationError, which the read
\* route has no clause for and answers 500 from its last one.
GetIdeaCommentsDown(user, idea, limit, offset, down) ==
    LET req == [limit |-> limit, offset |-> offset, down |-> down]
        access == CheckIdeaAccessDown(idea, user, down)
    IN  /\ ValidQuery(limit, offset)
        /\ down \in {"none", "ideas", "idea_shares", "comments"}
        /\ \/ down = "none"
           \/ GateReaches(idea, user, down)
           \/ down = "comments" /\ MayRead(access)
        /\ UNCHANGED <<shares, comments, now>>
        /\ IF ~MayRead(access)
           THEN resp' = Response("get_idea_comments", user, idea, req, 403, <<>>)
           ELSE IF down = "comments"
           THEN resp' = Response("get_idea_comments", user, idea, req, 500, <<>>)
           ELSE \E listing \in ListByIdea(idea) :
                    resp' = Response("get_idea_comments", user, idea, req, 200,
                                     BuildCommentTree(listing, limit, offset))

\* update_comment over such a store: the raising select is re-raised as
\* ValidationError and answered 400.
UpdateCommentDown(comment_id, user, content, down) ==
    LET req == [content |-> content, down |-> down]
        rows == ContentUpdated(comments, comment_id, content)
    IN  /\ down \in {"none", "comments"}
        /\ IF down = "comments"
           THEN /\ resp' = Response("update_comment", user, comment_id, req, 400, <<>>)
                /\ UNCHANGED <<shares, comments, now>>
           ELSE IF OwnRows(comment_id, user) = {}
           THEN /\ resp' = Response("update_comment", user, comment_id, req, 403, <<>>)
                /\ UNCHANGED <<shares, comments, now>>
           ELSE /\ comments' = rows
                /\ resp' = Response("update_comment", user, comment_id, req, 200,
                       <<CommentNode(<<>>, rows[CHOOSE k \in 1..Len(rows) : rows[k].id = comment_id])>>)
                /\ UNCHANGED <<shares, now>>

\* delete_comment over such a store: the raising select is re-raised as
\* ValidationError, which the delete route answers 500 from its last
\* clause.
DeleteCommentDown(comment_id, user, down) ==
    LET req == [down |-> down]
    IN  /\ down \in {"none", "comments"}
        /\ IF down = "comments"
           THEN /\ resp' = Response("delete_comment", user, comment_id, req, 500, <<>>)
                /\ UNCHANGED <<shares, comments, now>>
           ELSE IF OwnRows(comment_id, user) = {}
           THEN /\ resp' = Response("delete_comment", user, comment_id, req, 403, <<>>)
                /\ UNCHANGED <<shares, comments, now>>
           ELSE /\ comments' = SoftDeleted(comments, comment_id)
                /\ resp' = Response("delete_comment", user, comment_id, req, 204, <<>>)
                /\ UNCHANGED <<shares, now>>

\* The clock of the store moves on; the last response has been delivered.
Tick == /\ now < MaxTime
        /\ now' = now + 1
        /\ resp' = NoResponse
        /\ UNCHANGED <<shares, comments>>

\* ------------------------------------------------------- specifications
\* Spec: the collaboration system as a whole. The owner of I1 has already
\* written a thread on it that leaves room for one more row; every share
\* operation, both create paths (without a parent comment) and the read
\* of the first ten roots are offered to every user.
OwnerThread ==
    [k \in 1..(MaxComments - 1) |->
        [id |-> k, user_id |-> "A", idea_id |-> "I1", feature_id |-> NoneStr,
         parent_comment_id |-> IF k = 1 THEN None ELSE k - 1, content |-> "hello",
         created_at |-> 1, updated_at |-> 1]]

Init == /\ shares = {}
        /\ comments = OwnerThread
        /\ now = 1
        /\ resp = NoResponse
        /\ AtRest

\* The ideas whose owner shares them in Spec, the addresses the share
\* requests name (B's, and one no user has), and the share ids the update
\* and delete requests name (the row of I1 for B, and one that never
\* exists).
SharedIdeas == {"I1"}
Emails == {"B", "nobody"}
RequestedShares == {<<"I1", "B">>, <<"I2", "A">>}
Expiries == {None} \cup Times

Next ==
    \/ Tick /\ StoreOnly
    \/ \E u \in Users, i \in SharedIdeas, e \in Emails, r \in Roles, x \in Expiries :
          CreateShare(u, i, e, r, x) /\ StoreOnly
    \/ \E k \in RequestedShares, u \in Users, d \in ShareUpdates : UpdateShare(k, u, d) /\ StoreOnly
    \/ \E k \in RequestedShares, u \in Users : DeleteShare(k, u) /\ StoreOnly
    \/ \E u \in Users, i \in Ideas, c \in Contents : CreateIdeaComment(u, i, c, None) /\ StoreOnly
    \/ \E u \in Users, f \in Features, c \in Contents : CreateFeatureComment(u, f, c, None) /\ StoreOnly
    \/ \E u \in Users, i \in Ideas : GetIdeaComments(u, i, 10, 0) /\ StoreOnly

Spec == Init /\ [][Next]_vars

\* SpecThread: the thread builder at work. The owner of I1 writes comments
\* on its feature and on the idea, there in reply to any stored comment,
\* and reads the idea's thread with every page request.
CommentIds == 1..Len(comments)
Limits == {-1, 0, 1, 2, 10, 101}
Offsets == {0, 1, 2}

InitThread == /\ shares = {}
              /\ comments = <<>>
              /\ now = 1
              /\ resp = NoResponse
              /\ AtRest

NextThread ==
    \/ Tick /\ StoreOnly
    \/ \E c \in Contents, p \in {None} \cup CommentIds : CreateIdeaComment("A", "I1", c, p) /\ StoreOnly
    \/ \E f \in Features, c \in Contents : CreateFeatureComment("A", f, c, None) /\ StoreOnly
    \/ \E l \in Limits, o \in Offsets : GetIdeaComments("A", "I1", l, o) /\ StoreOnly

SpecThread == InitThread /\ [][NextThread]_vars

\* SpecEdit: authors at work on a shared idea. B holds an editor share of
\* A's idea I1, and the two have written a thread on it in turns that
\* leaves room for one more row. Both create, on the idea in reply to any
\* stored comment and on features (one of them without a row), both ask
\* to update and to delete every comment id, and the editor reads the
\* thread.
EditorShare ==
    [id |-> <<"I1", "B">>, idea_id |-> "I1", owner_id |-> "A", shared_with_id |-> "B",
     role |-> "editor", is_active |-> TRUE, expires_at |-> None]

SharedThread ==
    [k \in 1..(MaxComments - 1) |->
        [id |-> k, user_id |-> IF k % 2 = 1 THEN "A" ELSE "B", idea_id |-> "I1",
         feature_id |-> NoneStr, parent_comment_id |-> IF k = 1 THEN None ELSE k - 1,
         content |-> "hello", created_at |-> 1, updated_at |-> 1]]

InitEdit == /\ shares = {EditorShare}
            /\ comments = SharedThread
            /\ now = 1
            /\ resp = NoResponse
            /\ AtRest

\* The feature ids the requests name (F9 has no row), the comment ids
\* they name (the last has no row while the table has room), and the
\* contents the updates carry.
RequestedFeatures == Features \cup {"F9"}
RequestedComments == 1..MaxComments
Edits == {"hello v2"}

NextEdit ==
    \/ Tick /\ StoreOnly
    \/ \E u \in Users, c \in Contents, p \in {None} \cup CommentIds :
          CreateIdeaComment(u, "I1", c, p) /\ StoreOnly
    \/ \E u \in Users, f \in RequestedFeatures, c \in Contents :
          CreateFeatureComment(u, f, c, None) /\ StoreOnly
    \/ \E k \in RequestedComments, u \in Users, e \in Edits : UpdateComment(k, u, e) /\ StoreOnly
    \/ \E k \in RequestedComments, u \in Users : DeleteComment(k, u) /\ StoreOnly
    \/ GetIdeaComments("B", "I1", 10, 0) /\ StoreOnly

SpecEdit == InitEdit /\ [][NextEdit]_vars

\* SpecFault: the same idea and thread over a store that fails. Every
\* request meets the store in order or with one of the tables it calls
\* failing.
Downs == {"none"} \cup Tables

NextFault ==
    \/ Tick /\ StoreOnly
    \/ \E u \in Users, c \in Contents, d \in Downs : CreateIdeaCommentDown(u, "I1", c, None, d) /\ StoreOnly
    \/ \E u \in Users, f \in Features, c \in Contents, d \in Downs :
          CreateFeatureCommentDown(u, f, c, None, d) /\ StoreOnly
    \/ \E u \in Users, d \in Downs : GetIdeaCommentsDown(u, "I1", 10, 0, d) /\ StoreOnly
    \/ \E k \in RequestedComments, u \in Users, e \in Edits, d \in Downs :
          UpdateCommentDown(k, u, e, d) /\ StoreOnly
    \/ \E k \in RequestedComments, u \in Users, d \in Downs : DeleteCommentDown(k, u, d) /\ StoreOnly

SpecFault == InitEdit /\ [][NextFault]_vars

\* ---------------------------------------------------------------- claims
\* The share rows of one (idea, user) pair, active or not.
ShareRows(idea, user) == {s \in shares : s.idea_id = idea /\ s.shared_with_id = user}

\* A share whose expiry lies in the past at the present instant.
Expired(s) == s.expires_at # None /\ s.expires_at < now

CreateOps == {"create_idea_comment", "create_feature_comment"}

\* The idea the last request was about.
RespIdea == IF resp.op = "create_feature_comment" THEN featureIdea(resp.target)
            ELSE resp.target

\* C1: check_idea_access answers (true, owner) to the owner of the idea,
\* (true, role of the share) to a non-owner holding a share of the idea
\* that is active and has no expiry, and no access to a non-owner whose
\* share has been deactivated.
C1_AccessGate ==
    \A i \in Ideas, u \in Users :
        /\ ideaOwner(i) = u =>
              CheckIdeaAccess(i, u) = [has_access |-> TRUE, role |-> "owner"]
        /\ ideaOwner(i) # u =>
              \A s \in ShareRows(i, u) :
                  (s.is_active /\ s.expires_at = None) =>
                      CheckIdeaAccess(i, u) = [has_access |-> TRUE, role |-> s.role]
        /\ (ideaOwner(i) # u /\ ShareRows(i, u) # {}
                /\ \A s \in ShareRows(i, u) : ~s.is_active) =>
              CheckIdeaAccess(i, u) = [has_access |-> FALSE, role |-> NoneStr]

\* update_share has just deactivated a share that has no expiry, and the
\* gate denies the user it was made for.
C1_Witness ==
    /\ resp.op = "update_share" /\ resp.status = 200
    /\ resp.req.is_active = <<FALSE>>
    /\ \E s \in shares :
          /\ s.id = resp.target /\ ~s.is_active /\ s.expires_at = None
          /\ ideaOwner(s.idea_id) # s.shared_with_id
          /\ ~CheckIdeaAccess(s.idea_id, s.shared_with_id).has_access

\* C2: an expired share behaves like no share: a non-owner all of whose
\* shares of the idea have expires_at in the past is denied by the gate,
\* also when is_active is true, and that user's create and read requests
\* on the idea are answered Forbidden.
C2_ExpiredShareDenied ==
    /\ \A i \in Ideas, u \in Users :
          (ideaOwner(i) # u /\ \A s \in ShareRows(i, u) : Expired(s)) =>
              ~CheckIdeaAccess(i, u).has_access
    /\ (/\ resp.op \in CreateOps \cup {"get_idea_comments"}
        /\ ideaOwner(RespIdea) # resp.user
        /\ \A s \in ShareRows(RespIdea, resp.user) : Expired(s)) =>
          resp.status = 403

\* C3 as claimed: a create by a user whose access is a viewer share is
\* refused.
C3_ViewerCreateRefused ==
    (/\ resp.op \in CreateOps
     /\ CheckIdeaAccess(RespIdea, resp.user).role = "viewer") =>
        resp.status = 403

\* C3, amended: every user with access to the idea, as owner, editor or
\* viewer, may create a comment on it or on one of its features: the
\* create is answered 201 and its comment is the row stored last, with the
\* caller as author. A create by a user without access is refused. A
\* viewer may read the thread.
C3_AnyRoleCreates ==
    /\ (resp.op \in CreateOps /\ CheckIdeaAccess(RespIdea, resp.user).has_access) =>
          /\ resp.status = 201
          /\ Len(resp.body) = 1
          /\ resp.body[1].id = Len(comments)
          /\ comments[Len(comments)].user_id = resp.user
          /\ resp.body[1].replies = <<>>
    /\ (resp.op \in CreateOps /\ ~CheckIdeaAccess(RespIdea, resp.user).has_access) =>
          resp.status = 403
    /\ (/\ resp.op = "get_idea_comments"
        /\ CheckIdeaAccess(RespIdea, resp.user).role = "viewer") =>
          resp.status = 200

\* A user whose only access is an active viewer share has created a
\* comment.
C3_Witness ==
    /\ resp.op \in CreateOps /\ resp.status = 201
    /\ CheckIdeaAccess(RespIdea, resp.user).role = "viewer"
    /\ comments[Len(comments)].user_id = resp.user

\* The last request is a create on an idea, or a read of it, by a user who
\* neither owns the idea nor has a share of it.
C4_Case ==
    /\ resp.op \in {"create_idea_comment", "get_idea_comments"}
    /\ ideaOwner(resp.target) # resp.user
    /\ ShareRows(resp.target, resp.user) = {}

\* C4: a create on an idea by a user who neither owns it nor has a share
\* of it is answered 403 and leaves the comment store as it was; a read by
\* such a user is answered 403 and returns no comment.
C4_NoShareForbidden ==
    /\ [](C4_Case => (resp.status = 403 /\ resp.body = <<>>))
    /\ [][C4_Case' => comments' = comments]_vars

\* A user without a share has asked to create a comment and was refused.
C4_Witness ==
    /\ C4_Case /\ resp.op = "create_idea_comment" /\ resp.status = 403

\* C5: the access decision is taken on the shares as they are when the
\* request is handled: a successful delete_share leaves no row of that id,
\* a successful deactivation leaves the row inactive, and a read or create
\* by a non-owner who has no active share at that moment is refused,
\* whatever that user was granted before.
C5_FreshDecision ==
    /\ (resp.op = "delete_share" /\ resp.status = 204) =>
          \A s \in shares : s.id # resp.target
    /\ (resp.op = "update_share" /\ resp.status = 200
            /\ resp.req.is_active = <<FALSE>>) =>
          \A s \in shares : s.id = resp.target => ~s.is_active
    /\ (/\ resp.op \in CreateOps \cup {"get_idea_comments"}
        /\ resp.status # 422
        /\ ideaOwner(RespIdea) # resp.user
        /\ \A s \in ShareRows(RespIdea, resp.user) : ~s.is_active) =>
          (resp.status = 403 /\ resp.body = <<>>)

\* A user who created a comment on the idea while holding a share has lost
\* the share and is refused.
C5_Witness ==
    /\ resp.op \in CreateOps \cup {"get_idea_comments"}
    /\ resp.status = 403
    /\ ideaOwner(RespIdea) # resp.user
    /\ ShareRows(RespIdea, resp.user) = {}
    /\ \E k \in 1..Len(comments) :
          comments[k].user_id = resp.user /\ comments[k].idea_id = RespIdea

\* ------------------------------------------------- claims on the thread
RECURSIVE ForestNodes(_)
\* Every node of a forest of comments, at any depth.
ForestNodes(forest) ==
    UNION {{forest[k]} \cup ForestNodes(forest[k].replies) : k \in 1..Len(forest)}

RECURSIVE CountIn(_, _)
\* How many nodes of the forest carry this comment id.
CountIn(forest, id) ==
    IF Len(forest) = 0 THEN 0
    ELSE (IF Head(forest).id = id THEN 1 ELSE 0)
            + CountIn(Head(forest).replies, id) + CountIn(Tail(forest), id)

\* The stored rows of an idea's thread, and their ids.
ThreadRows(idea) == {comments[k] : k \in {j \in 1..Len(comments) : comments[j].idea_id = idea}}
ThreadIds(idea) == {c.id : c \in ThreadRows(idea)}

\* The last response is a successful read of an idea's thread.
ReadOk == resp.op = "get_idea_comments" /\ resp.status = 200

\* A successful read that asked for more roots than the thread has, from
\* the first on.
ReadAll == ReadOk /\ resp.req.offset = 0 /\ resp.req.limit >= Len(comments)

\* C6: the unpaginated forest a read builds holds every comment of the
\* idea's thread exactly once, as a root or nested, and a comment whose
\* parent is not among the thread's comments is one of the roots.
C6_EveryCommentOnce ==
    ReadAll =>
        /\ \A id \in ThreadIds(resp.target) : CountIn(resp.body, id) = 1
        /\ \A c \in ThreadRows(resp.target) :
              (c.parent_comment_id # None
                    /\ c.parent_comment_id \notin ThreadIds(resp.target)) =>
                  \E k \in 1..Len(resp.body) : resp.body[k].id = c.id

\* C7: a read puts every comment whose parent is a comment of the same
\* thread into the replies list built for that parent, once; in the result
\* the replies of every node, at any depth, are exactly the thread's
\* comments whose parent is that node's comment, each once; after a root and one reply to it were created, the read
\* with limit 10 and offset 0 returns that root alone, with the reply as
\* its only reply.
C7_RepliesNested ==
    ReadOk =>
        /\ \A listing \in ListByIdea(resp.target) :
              \A j, k \in 1..Len(listing) :
                  listing[j].parent_comment_id = listing[k].id =>
                      Cardinality({m \in 1..Len(Replies(listing, listing[k].id)) :
                          Replies(listing, listing[k].id)[m].id = listing[j].id}) = 1
        /\ \A n \in ForestNodes(resp.body) :
              /\ {r.id : r \in ForestNodes(n.replies)} \cap {n.id} = {}
              /\ {n.replies[k].id : k \in 1..Len(n.replies)} =
                    {c.id : c \in {d \in ThreadRows(resp.target) :
                                      d.parent_comment_id = n.id}}
              /\ \A j, k \in 1..Len(n.replies) :
                    j # k => n.replies[j].id # n.replies[k].id
        /\ (/\ Len(comments) = 2
            /\ comments[1].idea_id = resp.target /\ comments[1].parent_comment_id = None
            /\ comments[2].idea_id = resp.target /\ comments[2].parent_comment_id = 1
            /\ resp.req.limit = 10 /\ resp.req.offset = 0) =>
              /\ Len(resp.body) = 1
              /\ resp.body[1].id = 1
              /\ Len(resp.body[1].replies) = 1
              /\ resp.body[1].replies[1].id = 2
              /\ resp.body[1].replies[1].replies = <<>>

\* A read has returned a root with a reply that itself has a reply.
C7_Witness ==
    /\ ReadOk
    /\ \E k \in 1..Len(resp.body) :
          /\ Len(resp.body[k].replies) >= 1
          /\ Len(resp.body[k].replies[1].replies) >= 1

\* A list of nodes in ascending creation time.
Ascending(nodes) ==
    \A j, k \in 1..Len(nodes) : j < k => nodes[j].created_at <= nodes[k].created_at

\* C8: in the result of a read the roots are in ascending creation time,
\* and so are the replies of every node at every depth.
C8_CreationOrder ==
    ReadOk =>
        /\ Ascending(resp.body)
        /\ \A n \in ForestNodes(resp.body) : Ascending(n.replies)

\* A read has returned a node whose replies were created at different
\* instants.
C8_Witness ==
    /\ ReadOk
    /\ \E n \in ForestNodes(resp.body) :
          /\ Len(n.replies) >= 2
          /\ n.replies[1].created_at < n.replies[2].created_at

Min(a, b) == IF a < b THEN a ELSE b
Max(a, b) == IF a > b THEN a ELSE b

\* The ids of a list of nodes or rows, in order.
IdsOf(seq) == [k \in 1..Len(seq) |-> seq[k].id]

RECURSIVE Descendants(_, _)
\* The thread's comments below this one by parent links, at any depth.
Descendants(idea, id) ==
    LET kids == {c.id : c \in {d \in ThreadRows(idea) : d.parent_comment_id = id}}
    IN  kids \cup UNION {Descendants(idea, k) : k \in kids}

\* The page a request for limit and offset is to return of a list of
\* roots: its slice [offset : offset + limit].
PageOf(roots, limit, offset) ==
    SubSeq(roots, offset + 1, Min(offset + limit, Len(roots)))

\* What C9 asks of the forest built from one listing.
PagedAsClaimed(idea, listing, forest, limit, offset) ==
    LET roots == SelectSeq(listing, LAMBDA c : c.parent_comment_id = None)
    IN  /\ Len(forest) = Min(limit, Max(0, Len(roots) - offset))
        /\ IdsOf(forest) = IdsOf(PageOf(roots, limit, offset))
        /\ \A k \in 1..Len(forest) :
              {n.id : n \in ForestNodes(forest[k].replies)} =
                  Descendants(idea, forest[k].id)

\* C9: for limit >= 0 and offset >= 0 the thread builder returns
\* min(limit, max(0, rootCount - offset)) roots, the slice
\* [offset : offset + limit] of the creation-ordered root list, each with
\* its whole reply subtree; and so does every read the route answers.
C9_RootPagination ==
    /\ \A listing \in ListByIdea("I1"), l \in {x \in Limits : x >= 0}, o \in Offsets :
          PagedAsClaimed("I1", listing, BuildCommentTree(listing, l, o), l, o)
    /\ ReadOk =>
          \E listing \in ListByIdea(resp.target) :
              PagedAsClaimed(resp.target, listing, resp.body,
                             resp.req.limit, resp.req.offset)

\* A read for one root from the second on has returned the second of
\* several roots, with a reply beneath it.
C9_Witness ==
    /\ ReadOk /\ resp.req.limit = 1 /\ resp.req.offset = 1
    /\ Cardinality({c \in ThreadRows(resp.target) : c.parent_comment_id = None}) >= 2
    /\ Len(resp.body) = 1
    /\ Len(resp.body[1].replies) >= 1

\* C10: a read with limit <= 0 returns no comment: the route rejects it
\* as invalid, whatever the offset; and a read the route answers whose
\* offset is at or past the number of roots returns the empty list.
C10_EmptyPages ==
    /\ (resp.op = "get_idea_comments" /\ resp.req.limit <= 0) =>
          (resp.status = 422 /\ resp.body = <<>>)
    /\ (ReadOk /\ resp.req.offset >=
            Cardinality({c \in ThreadRows(resp.target) : c.parent_comment_id = None})) =>
          resp.body = <<>>

\* A read with a negative limit was rejected although the thread has
\* several roots.
C10_Witness ==
    /\ resp.op = "get_idea_comments" /\ resp.req.limit < 0 /\ resp.status = 422
    /\ Cardinality({c \in ThreadRows(resp.target) : c.parent_comment_id = None}) >= 2

\* ------------------------------------------- claims on parents and edits
\* The stored rows, and the stored rows of one id.
AllRows == {comments[k] : k \in 1..Len(comments)}
Stored(id) == {c \in AllRows : c.id = id}

\* The parent of this row is a stored comment on the same idea or the
\* same feature.
ParentInSameThread(c) ==
    \E d \in Stored(c.parent_comment_id) :
        d.idea_id = c.idea_id /\ d.feature_id = c.feature_id

\* C11: every stored comment with parent_comment_id set references a
\* comment attached to the same idea or the same feature, and a create on
\* an idea whose parent_comment_id names a comment that is not of that
\* idea's thread is answered with the ValidationError status (400).
C11_ParentSameThread ==
    /\ \A c \in AllRows : c.parent_comment_id # None => ParentInSameThread(c)
    /\ (/\ resp.op = "create_idea_comment"
        /\ resp.req # None
        /\ \E d \in Stored(resp.req) : d.idea_id # resp.target) =>
          resp.status = 400

MutateOps == {"update_comment", "delete_comment"}

\* The last request asked to update or delete a stored comment that the
\* caller did not write.
C12_Case ==
    /\ resp.op \in MutateOps
    /\ \E c \in Stored(resp.target) : c.user_id # resp.user

\* C12: an update_comment or delete_comment by a user other than the
\* comment's author, the idea's owner and editors included, is refused
\* and leaves the comment store as it was.
C12_AuthorOnly ==
    /\ [](C12_Case => (resp.status = 403 /\ resp.body = <<>>))
    /\ [][C12_Case' => comments' = comments]_vars

\* The owner of the idea asked to update a comment an editor wrote on it
\* and was refused.
C12_Witness ==
    /\ C12_Case /\ resp.op = "update_comment" /\ resp.status = 403
    /\ \E c \in Stored(resp.target) :
          /\ c.idea_id # NoneStr /\ ideaOwner(c.idea_id) = resp.user
          /\ CheckIdeaAccess(c.idea_id, c.user_id).role = "editor"
          /\ c.content = "hello"

\* C13: an update or delete whose (comment id, caller) pair matches no
\* row, the id being unknown or the caller not the author, is answered
\* 404, and so is a create on a feature id that has no row.
C13_NotFoundIs404 ==
    /\ (resp.op \in MutateOps /\ OwnRows(resp.target, resp.user) = {}) =>
          resp.status = 404
    /\ (resp.op = "create_feature_comment" /\ resp.target \notin Features) =>
          resp.status = 404

\* The forest a read of the first ten roots builds when the store lists
\* the thread in the order the rows were inserted (created_at never
\* decreases in that order).
Reading(idea) == BuildCommentTree(ThreadOf(idea), 10, 0)

\* A step keeps every comment of the idea's thread in its place: the
\* roots the builder collects from the thread and the replies it attaches
\* to each comment are the same comments in the same order.
SamePlaces(idea) ==
    /\ IdsOf(RootComments(ThreadOf(idea)))' = IdsOf(RootComments(ThreadOf(idea)))
    /\ \A id \in ThreadIds(idea) :
          IdsOf(Replies(ThreadOf(idea), id))' = IdsOf(Replies(ThreadOf(idea), id))

\* A successful read shows every comment it returns with its stored
\* content, under its stored parent, above the stored replies to it.
ReadShowsStore ==
    ReadOk =>
        \A n \in ForestNodes(resp.body) :
            /\ \E c \in ThreadRows(resp.target) :
                  /\ c.id = n.id /\ c.content = n.content
                  /\ c.parent_comment_id = n.parent_comment_id
            /\ {n.replies[k].id : k \in 1..Len(n.replies)} =
                  {d.id : d \in {e \in ThreadRows(resp.target) : e.parent_comment_id = n.id}}

DeleteOk == resp.op = "delete_comment" /\ resp.status = 204
UpdateOk == resp.op = "update_comment" /\ resp.status = 200

\* C14: a successful delete sets the content of the comment to the
\* sentinel "[deleted]" and leaves its id, author, thread, parent and
\* creation time and every other comment as they were; in the forest the
\* builder makes of each thread the comment keeps its place, as a root
\* or under the same parent, with the same replies beneath it; and a
\* read shows every comment with its stored content, so the deleted one
\* with the sentinel.
C14_SoftDeleteKeepsShape ==
    /\ [][DeleteOk' =>
            /\ Len(comments') = Len(comments)
            /\ \A k \in 1..Len(comments) :
                  comments'[k] =
                      IF comments[k].id = resp'.target
                      THEN [comments[k] EXCEPT !.content = DeletedContent,
                                               !.updated_at = comments'[k].updated_at]
                      ELSE comments[k]
            /\ \A c \in AllRows' : c.id = resp'.target => c.content = DeletedContent
            /\ \A i \in Ideas : SamePlaces(i)
         ]_vars
    /\ []ReadShowsStore

\* A reply that has a reply beneath it has been deleted: it is stored
\* with the sentinel, under its parent, above its reply.
C14_Witness ==
    /\ DeleteOk
    /\ \E c \in Stored(resp.target) :
          /\ c.content = DeletedContent
          /\ c.parent_comment_id # None
          /\ \E d \in AllRows : d.parent_comment_id = c.id /\ d.content # DeletedContent
          /\ \E n \in ForestNodes(Reading(c.idea_id)) :
                /\ n.id = c.id /\ n.content = DeletedContent
                /\ Len(n.replies) >= 1

\* C15: no comment operation removes a row: every comment id stored
\* before a step is stored after it.
C15_NeverRemoved ==
    [][{c.id : c \in AllRows} \subseteq {c.id : c \in AllRows}']_vars

\* A delete succeeded and the comment it named is stored.
C15_Witness ==
    /\ DeleteOk
    /\ Stored(resp.target) # {}
    /\ Len(comments) = MaxComments

\* C16: a successful update_comment changes the content of that comment
\* to the requested one and nothing else but its updated_at: id, author,
\* idea or feature, parent and created_at of the comment and every field
\* of every other comment stay; the response carries the comment with the
\* new content; in the forest the builder makes of each thread every
\* comment keeps its place; and a read that follows an update shows the
\* comments with their stored contents.
C16_UpdateFrame ==
    /\ [][UpdateOk' =>
            /\ Len(comments') = Len(comments)
            /\ \A k \in 1..Len(comments) :
                  comments'[k] =
                      IF comments[k].id = resp'.target
                      THEN [comments[k] EXCEPT !.content = resp'.req.content,
                                               !.updated_at = comments'[k].updated_at]
                      ELSE comments[k]
            /\ Len(resp'.body) = 1
            /\ resp'.body[1].id = resp'.target
            /\ resp'.body[1].content = resp'.req.content
            /\ \A c \in Stored(resp'.target) :
                  /\ resp'.body[1].created_at = c.created_at
                  /\ resp'.body[1].parent_comment_id = c.parent_comment_id
            /\ \A i \in Ideas : SamePlaces(i)
            /\ \A c \in AllRows' : c.id = resp'.target => c.content = resp'.req.content
         ]_vars
    /\ []ReadShowsStore

\* A reply with a reply beneath it has been updated while the other
\* comments keep another content.
C16_Witness ==
    /\ UpdateOk
    /\ \E c \in Stored(resp.target) :
          /\ c.content = resp.req.content
          /\ c.parent_comment_id # None
          /\ \E d \in AllRows : d.parent_comment_id = c.id
          /\ \A d \in AllRows : d.id # c.id => d.content # c.content

\* C17: a successful update_comment or delete_comment at an instant later
\* than the comment's updated_at leaves its updated_at strictly later than
\* it was, and its created_at as it was.
C17_UpdatedAtBumped ==
    [][(UpdateOk' \/ DeleteOk') =>
         \A k \in 1..Len(comments) :
             (comments[k].id = resp'.target /\ comments[k].updated_at < now) =>
                 /\ comments'[k].updated_at > comments[k].updated_at
                 /\ comments'[k].created_at = comments[k].created_at
      ]_vars

\* ----------------------------------------------- claims on store faults
\* The last request met a failing table.
Faulted == resp.op # "none" /\ resp.req.down # "none"

\* C18: a request that met a fault of the store is answered 500.
C18_FaultIs500 == Faulted => resp.status = 500

\* The last request was a create or a read whose access check met a
\* failing lookup.
GateFaulted ==
    /\ resp.op \in CreateOps \cup {"get_idea_comments"}
    /\ resp.req.down # "none"
    /\ GateReaches(RespIdea, resp.user, resp.req.down)

\* C19: whenever a store lookup inside check_idea_access fails the gate
\* does not grant access, and the create or read that called it inserts
\* nothing, does not succeed and returns no comment.
C19_FailClosed ==
    /\ [](\A i \in Ideas, u \in Users, d \in Tables :
             GateReaches(i, u, d) => ~CheckIdeaAccessDown(i, u, d).has_access)
    /\ [](GateFaulted => (resp.status \notin {200, 201} /\ resp.body = <<>>))
    /\ [][GateFaulted' => comments' = comments]_vars

\* The owner of the idea asked to create a comment on it while the ideas
\* lookup failed, and was not let in although the thread has comments.
C19_Witness ==
    /\ GateFaulted /\ resp.op = "create_idea_comment"
    /\ ideaOwner(RespIdea) = resp.user
    /\ resp.status = 403
    /\ ThreadRows(RespIdea) # {}

\* C20: a create on a feature is permitted exactly when the gate grants
\* the caller access to the idea the feature belongs to; the comment it
\* stores is the row stored last, with feature_id the feature, no idea_id
\* and the caller as author, and the response carries it with no replies.
C20_FeatureUsesIdeaAccess ==
    resp.op = "create_feature_comment" =>
        /\ resp.status = 201 <=> CheckIdeaAccess(featureIdea(resp.target), resp.user).has_access
        /\ resp.status # 201 => (resp.status = 403 /\ resp.body = <<>>)
        /\ resp.status = 201 =>
              /\ comments[Len(comments)].feature_id = resp.target
              /\ comments[Len(comments)].idea_id = NoneStr
              /\ comments[Len(comments)].user_id = resp.user
              /\ Len(resp.body) = 1
              /\ resp.body[1].id = comments[Len(comments)].id
              /\ resp.body[1].replies = <<>>

\* A user who holds a share of the idea, and does not own it, has created
\* a comment on its feature.
C20_Witness ==
    /\ resp.op = "create_feature_comment" /\ resp.status = 201
    /\ ideaOwner(featureIdea(resp.target)) # resp.user
    /\ ActiveShares(featureIdea(resp.target), resp.user) # {}
    /\ comments[Len(comments)].feature_id = resp.target

\* A create on an idea or on a feature succeeded.
CreateIdeaOk == resp.op = "create_idea_comment" /\ resp.status = 201
CreateFeatureOk == resp.op = "create_feature_comment" /\ resp.status = 201

\* The comment has exactly one of idea_id and feature_id.
OneParentEntity(c) == (c.idea_id = NoneStr) # (c.feature_id = NoneStr)

\* C22: every stored comment has exactly one of idea_id and feature_id;
\* a create on an idea stores a row with that idea_id and no feature_id,
\* a create on a feature a row with that feature_id and no idea_id; and
\* no step changes the idea_id or the feature_id of a stored comment.
C22_OneParentEntityFixed ==
    /\ [](\A c \in AllRows : OneParentEntity(c))
    /\ [](CreateIdeaOk =>
            /\ comments[Len(comments)].idea_id = resp.target
            /\ comments[Len(comments)].feature_id = NoneStr)
    /\ [](CreateFeatureOk =>
            /\ comments[Len(comments)].feature_id = resp.target
            /\ comments[Len(comments)].idea_id = NoneStr)
    /\ [][\A c \in AllRows : \A d \in AllRows' :
            d.id = c.id => d.idea_id = c.idea_id /\ d.feature_id = c.feature_id]_vars

\* A comment was created on a feature after a comment on an idea had been
\* updated and another one soft-deleted.
C22_Witness ==
    /\ CreateFeatureOk
    /\ comments[Len(comments)].feature_id = "F1"
    /\ \E c \in AllRows : c.idea_id = "I1" /\ c.content = "hello v2"
    /\ \E c \in AllRows : c.idea_id = "I1" /\ c.content = DeletedContent

\* C28: once a comment's content is "[deleted]" it stays "[deleted]": no
\* step gives a soft-deleted comment another content.
C28_SoftDeleteFinal ==
    [][\A c \in AllRows : \A d \in AllRows' :
          (d.id = c.id /\ c.content = DeletedContent) => d.content = DeletedContent]_vars

\* Sharing and editing side by side: the thread of InitEdit, shared with
\* B as editor, while the owner lists, changes and revokes shares and
\* both users edit their comments.
NextShare ==
    \/ \E u \in Users, e \in Emails, r \in Roles : CreateShare(u, "I1", e, r, None) /\ StoreOnly
    \/ \E u \in Users, i \in Ideas : GetIdeaShares(i, u) /\ StoreOnly
    \/ \E k \in RequestedShares, u \in Users, d \in ShareUpdates : UpdateShare(k, u, d) /\ StoreOnly
    \/ \E k \in RequestedShares, u \in Users : DeleteShare(k, u) /\ StoreOnly
    \/ \E k \in RequestedComments, u \in Users, e \in Edits : UpdateComment(k, u, e) /\ StoreOnly
    \/ \E k \in RequestedComments, u \in Users : DeleteComment(k, u) /\ StoreOnly

SpecShare == InitEdit /\ [][NextShare]_vars

\* The idea a comment belongs to: its own, or that of its feature.
IdeaOf(c) == IF c.idea_id # NoneStr THEN c.idea_id ELSE featureIdea(c.feature_id)

\* C23: whenever update_comment or delete_comment has succeeded for a
\* user, that user owns the idea of the comment or holds an active share
\* of it.
C23_AuthorHasAccess ==
    (UpdateOk \/ DeleteOk) =>
        \A c \in Stored(resp.target) : CheckIdeaAccess(IdeaOf(c), resp.user).has_access

\* The operations of the share routes, and the idea each request is about.
ShareOps == {"create_share", "get_idea_shares", "update_share", "delete_share"}
SharesOf(idea) == {s \in shares : s.idea_id = idea}
NotOwnerRequest(r, rows) ==
    /\ r.op \in ShareOps
    /\ r.op \in {"create_share", "get_idea_shares"} => ideaOwner(r.target) # r.user
    /\ r.op \in {"update_share", "delete_share"} =>
          \A s \in rows : s.id = r.target => ideaOwner(s.idea_id) # r.user

\* C25: a share request by a user who does not own the idea is refused and
\* leaves the share records as they were; and whatever a user requests,
\* the shares of an idea that user does not own stay as they are.
C25_OwnerOnlyShares ==
    /\ [][NotOwnerRequest(resp', shares) =>
             resp'.status \in {400, 403} /\ shares' = shares]_vars
    /\ [][\A i \in Ideas : resp'.user # ideaOwner(i) => SharesOf(i)' = SharesOf(i)]_vars

\* The holder of an active editor share asked to change that share and
\* was refused.
C25_Witness ==
    /\ resp.op = "update_share" /\ resp.status = 403
    /\ \E s \in shares : /\ s.id = resp.target
                         /\ s.shared_with_id = resp.user
                         /\ s.is_active /\ s.role = "editor"

\* ---------------------------------------------------------------------
\* Requests served side by side. The tables live in a store shared by
\* every worker of the application, and a handler makes its store calls
\* one after the other, so between two store calls of one request the
\* calls of another may run. A handler is followed call by call: its
\* locals are kept in calls[p] until the answer is sent.

\* The locals of a handler that has made its first store call.
Call(op, pc, user, target, arg, seen, status) ==
    [op |-> op, pc |-> pc, user |-> user, target |-> target,
     arg |-> arg, seen |-> seen, status |-> status]

\* The answer a handler has reached; the worker is free again once it is
\* sent.
Done(c, status) == [c EXCEPT !.pc = "done", !.status = status]
Return(p) ==
    /\ calls[p].pc = "done"
    /\ calls' = [calls EXCEPT ![p] = IdleCall]
    /\ UNCHANGED <<shares, comments, now, resp, stats, achievements>>

\* The content of the row a select found (rows are named by their place
\* in the table), if it found one.
ContentOf(rows) == IF rows = {} THEN NoneStr ELSE comments[CHOOSE k \in rows : TRUE].content

\* update_comment, first store call: select the comment by id and user_id
\* (the handler holds the row it got); nothing found raises ForbiddenError.
UpdateCommentSelect(p, comment_id, user, content) ==
    LET own == OwnRows(comment_id, user)
        c == Call("update_comment", "write", user, comment_id, content, ContentOf(own), None)
    IN  /\ calls[p].pc = "idle"
        /\ calls' = [calls EXCEPT ![p] = IF own = {} THEN Done(c, 403) ELSE c]
        /\ UNCHANGED <<shares, comments, now, resp, stats, achievements>>

\* A write that goes through only while the comment still has the content
\* the select returned.
UpdateCommentWriteIfUnchanged(p) ==
    LET c == calls[p]
    IN  /\ c.op = "update_comment" /\ c.pc = "write"
        /\ IF \E r \in Stored(c.target) : r.content # c.seen
           THEN /\ calls' = [calls EXCEPT ![p] = Done(c, 400)]
                /\ UNCHANGED comments
           ELSE /\ comments' = ContentUpdated(comments, c.target, c.arg)
                /\ calls' = [calls EXCEPT ![p] = Done(c, 200)]
        /\ UNCHANGED <<shares, now, resp, stats, achievements>>

\* update_comment, second store call: update content where id matches; no
\* row updated raises ValidationError.
UpdateCommentWrite(p) ==
    LET c == calls[p]
    IN  /\ c.op = "update_comment" /\ c.pc = "write"
        /\ IF Stored(c.target) = {}
           THEN /\ calls' = [calls EXCEPT ![p] = Done(c, 400)]
                /\ UNCHANGED comments
           ELSE /\ comments' = ContentUpdated(comments, c.target, c.arg)
                /\ calls' = [calls EXCEPT ![p] = Done(c, 200)]
        /\ UNCHANGED <<shares, now, resp, stats, achievements>>

\* delete_comment, first store call: the same select.
DeleteCommentSelect(p, comment_id, user) ==
    LET own == OwnRows(comment_id, user)
        c == Call("delete_comment", "write", user, comment_id, DeletedContent, ContentOf(own), None)
    IN  /\ calls[p].pc = "idle"
        /\ calls' = [calls EXCEPT ![p] = IF own = {} THEN Done(c, 403) ELSE c]
        /\ UNCHANGED <<shares, comments, now, resp, stats, achievements>>

\* delete_comment, second store call: update content to "[deleted]" where
\* id matches; the result is not looked at.
DeleteCommentWrite(p) ==
    LET c == calls[p]
    IN  /\ c.op = "delete_comment" /\ c.pc = "write"
        /\ comments' = SoftDeleted(comments, c.target)
        /\ calls' = [calls EXCEPT ![p] = Done(c, 204)]
        /\ UNCHANGED <<shares, now, resp, stats, achievements>>

\* create_share up to its last read: the idea is the caller's, the address
\* is a user's, and no share of the idea with that user is stored.
CreateShareCheck(p, owner_id, idea, email) ==
    LET refused == \/ ideaOwner(idea) # owner_id
                   \/ email \notin Users
                   \/ \E s \in shares : s.idea_id = idea /\ s.shared_with_id = email
        c == Call("create_share", "insert", owner_id, idea, email, None, None)
    IN  /\ calls[p].pc = "idle"
        /\ calls' = [calls EXCEPT ![p] = IF refused THEN Done(c, 400) ELSE c]
        /\ UNCHANGED <<shares, comments, now, resp, stats, achievements>>

\* create_share, the insert. The store gives every row an id of its own;
\* here the rows of one pair are told apart by the worker that inserted
\* them. The role is the default of ShareCreate.
CreateShareInsert(p) ==
    LET c == calls[p]
    IN  /\ c.op = "create_share" /\ c.pc = "insert"
        /\ shares' = shares \cup
               {[id |-> <<c.target, c.arg, p>>, idea_id |-> c.target, owner_id |-> c.user,
                 shared_with_id |-> c.arg, role |-> "viewer", is_active |-> TRUE,
                 expires_at |-> None]}
        /\ calls' = [calls EXCEPT ![p] = Done(c, 201)]
        /\ UNCHANGED <<comments, now, resp, stats, achievements>>

\* create_idea_comment, the access check.
CreateIdeaCommentCheck(p, user, idea, content) ==
    LET access == CheckIdeaAccess(idea, user)
        c == Call("create_idea_comment", "insert", user, idea, content, None, None)
    IN  /\ calls[p].pc = "idle"
        /\ calls' = [calls EXCEPT ![p] = IF ~MayCreate(access) THEN Done(c, 403) ELSE c]
        /\ UNCHANGED <<shares, comments, now, resp, stats, achievements>>

\* create_idea_comment, the insert.
CreateIdeaCommentInsert(p) ==
    LET c == calls[p]
    IN  /\ c.op = "create_idea_comment" /\ c.pc = "insert"
        /\ Len(comments) < MaxComments
        /\ comments' = Append(comments, NewComment(c.user, c.target, NoneStr, c.arg, None))
        /\ calls' = [calls EXCEPT ![p] = Done(c, 201)]
        /\ UNCHANGED <<shares, now, resp, stats, achievements>>

\* The share rows a revocation may name, and the contents two racing
\* updates carry.
RaceShares == {<<"I1", "B">>} \cup {<<"I1", "B", p>> : p \in Procs}
RaceEdits == {"hello v2", "hello v3"}

\* The thread of InitEdit, shared with B, with two workers; the owner A
\* edits and soft-deletes comment 1, shares the idea with B and revokes
\* shares, and B comments.
NextRace ==
    \/ \E p \in Procs, e \in RaceEdits : UpdateCommentSelect(p, 1, "A", e)
    \/ \E p \in Procs : UpdateCommentWrite(p)
    \/ \E p \in Procs : DeleteCommentSelect(p, 1, "A")
    \/ \E p \in Procs : DeleteCommentWrite(p)
    \/ \E p \in Procs : CreateShareCheck(p, "A", "I1", "B")
    \/ \E p \in Procs : CreateShareInsert(p)
    \/ \E p \in Procs : CreateIdeaCommentCheck(p, "B", "I1", "hello")
    \/ \E p \in Procs : CreateIdeaCommentInsert(p)
    \/ \E p \in Procs : Return(p)
    \/ \E k \in RaceShares : DeleteShare(k, "A") /\ StoreOnly

SpecRace == InitEdit /\ [][NextRace]_vars

\* Worker p makes the second store call of an update or a soft delete in
\* this step.
WriteStep(p) == calls[p].pc = "write" /\ calls'[p].pc = "done"

\* C21: when updates and soft deletes of one comment by its author run
\* side by side, each of them completes without error; the store update
\* of each leaves the comment with the content that request wrote; and
\* the content of a comment changes in no other step, so that after any
\* interleaving it is the value of the store update that ran last.
C21_LastWriteWins ==
    /\ [][\A p \in Procs : WriteStep(p) =>
             /\ calls'[p].status \in {200, 204}
             /\ \A r \in AllRows' : r.id = calls[p].target => r.content = calls[p].arg]_vars
    /\ [][\A r \in AllRows : \A d \in AllRows' :
             (d.id = r.id /\ d.content # r.content) =>
                 \E p \in Procs : /\ WriteStep(p)
                                  /\ calls[p].target = r.id
                                  /\ d.content = calls[p].arg]_vars
    /\ [](\A p \in Procs :
             (calls[p].pc = "done" /\ calls[p].op \in MutateOps) =>
                 (OwnRows(calls[p].target, calls[p].user) # {} =>
                      calls[p].status \in {200, 204}))

\* Two updates of comment 1 by its author have both been answered 200;
\* the first worker selected the row while it still had its first
\* content, the second wrote in between, and the comment has the content
\* the first worker wrote last.
C21_Witness ==
    /\ \A p \in Procs : /\ calls[p].pc = "done" /\ calls[p].op = "update_comment"
                        /\ calls[p].status = 200 /\ calls[p].target = 1
    /\ calls["p1"].seen = "hello"
    /\ calls["p1"].arg # calls["p2"].arg
    /\ \A r \in Stored(1) : r.content = calls["p1"].arg

\* C26: never two share records of one idea with one user.
C26_OneSharePerPair ==
    \A s, t \in shares :
        (s.idea_id = t.idea_id /\ s.shared_with_id = t.shared_with_id) => s = t

\* C27: a comment is inserted only for a user who, at the moment of the
\* insert, owns the idea or holds an active share of it.
C27_NoInsertWithoutAccess ==
    [][Len(comments') > Len(comments) =>
          CheckIdeaAccess(IdeaOf(comments'[Len(comments')]),
                          comments'[Len(comments')].user_id).has_access]_vars

\* ---------------------------------------------------------------------
\* User statistics and achievements of one user. Days are counted like
\* the instants of the clock: now is today's date.

MaxStat == 2          \* largest value an increment may bring a counter to
XpPerLevel == 100

\* The user whose statistics are kept.
StatsUser == "A"

\* UserStatsService.calculate_level.
calculate_level(total_xp) == Max(1, (total_xp \div XpPerLevel) + 1)

\* The row get_or_create_user_stats inserts for a user without one.
FreshStats ==
    [exists |-> TRUE, total_xp |-> 0, current_level |-> 1, current_streak |-> 0,
     longest_streak |-> 0, last_activity_date |-> None, ideas_created |-> 0,
     ideas_completed |-> 0, ai_suggestions_applied |-> 0, collaborations_count |-> 0]

\* get_or_create_user_stats: the stored row, or the fresh one.
GetOrCreateUserStats(row) == IF row.exists THEN row ELSE FreshStats

\* The columns update_user_stats copies from the request as they are.
PlainFields == {"last_activity_date", "ideas_created", "ideas_completed",
                "ai_suggestions_applied", "collaborations_count"}

\* update_data of update_user_stats, applied to the stored row: a
\* UserStatsUpdate is the function from the fields that are not None to
\* their values; current_stats is the row read at the start of the call.
\* A current_streak above the longest one read raises longest_streak; a
\* longest_streak of the request is then written over it.
StatsUpdated(stored, current_stats, stats_update) ==
    LET has(f) == f \in DOMAIN stats_update
        xp == IF has("total_xp")
              THEN [stored EXCEPT !.total_xp = stats_update["total_xp"],
                                  !.current_level = calculate_level(stats_update["total_xp"])]
              ELSE stored
        streak == IF has("current_streak")
                  THEN [xp EXCEPT !.current_streak = stats_update["current_streak"],
                                  !.longest_streak =
                                      IF stats_update["current_streak"] > current_stats.longest_streak
                                      THEN stats_update["current_streak"] ELSE @]
                  ELSE xp
        longest == IF has("longest_streak")
                   THEN [streak EXCEPT !.longest_streak = stats_update["longest_streak"]]
                   ELSE streak
    IN  [f \in DOMAIN longest |->
            IF f \in PlainFields /\ has(f) THEN stats_update[f] ELSE longest[f]]

\* AchievementService.check_and_unlock_achievements followed by
\* unlock_achievement: the types held after the check of the updated row.
CheckAndUnlockAchievements(held, row) ==
    held \cup {t \in {"first_idea", "idea_master_10", "first_completion",
                      "week_streak", "collaborator", "ai_adopter"} :
                  \/ t = "first_idea" /\ row.ideas_created = 1
                  \/ t = "idea_master_10" /\ row.ideas_created = 10
                  \/ t = "first_completion" /\ row.ideas_completed = 1
                  \/ t = "week_streak" /\ row.current_streak = 7
                  \/ t = "collaborator" /\ row.collaborations_count = 1
                  \/ t = "ai_adopter" /\ row.ai_suggestions_applied = 5}

\* UserStatsService.update_user_stats: read (or create) the row, write
\* update_data, check the achievements of the row written.
WriteStats(stats_update) ==
    LET current_stats == GetOrCreateUserStats(stats)
        row == StatsUpdated(current_stats, current_stats, stats_update)
    IN  /\ stats' = row
        /\ achievements' = CheckAndUnlockAchievements(achievements, row)

\* POST /api/stats/update.
UpdateUserStats(stats_update) ==
    /\ WriteStats(stats_update)
    /\ resp' = Response("update_user_stats", StatsUser, NoneStr, <<>>, 200, <<>>)
    /\ UNCHANGED <<shares, comments, now, calls>>

\* UserStatsService.increment_stat behind POST /api/stats/increment: the
\* field's value read plus the amount, and today as last_activity_date,
\* go to update_user_stats.
IncrementStat(field, amount) ==
    LET current_stats == GetOrCreateUserStats(stats)
        value == current_stats[field] + amount
    IN  /\ value \in (0 - 1)..MaxStat
        /\ WriteStats((field :> value) @@ ("last_activity_date" :> now))
        /\ resp' = Response("increment_stat", StatsUser, field, <<>>, 200, <<>>)
        /\ UNCHANGED <<shares, comments, now, calls>>

\* UserStatsService.award_xp behind POST /api/stats/award-xp.
AwardXp(xp_amount) ==
    LET current_stats == GetOrCreateUserStats(stats)
        new_xp == current_stats.total_xp + xp_amount
    IN  /\ new_xp \in 0..(XpPerLevel * MaxStat)
        /\ WriteStats(("total_xp" :> new_xp) @@ ("last_activity_date" :> now))
        /\ resp' = Response("award_xp", StatsUser, NoneStr, <<>>, 200, <<>>)
        /\ UNCHANGED <<shares, comments, now, calls>>

\* UserStatsService.update_streak: 1 on the first activity and after a
\* day without one, unchanged on the same day, one more on the next day.
UpdateStreak ==
    LET current_stats == GetOrCreateUserStats(stats)
        last_activity == current_stats.last_activity_date
        new_streak == IF last_activity = None THEN 1
                      ELSE IF last_activity = now THEN current_stats.current_streak
                      ELSE IF now - last_activity = 1 THEN current_stats.current_streak + 1
                      ELSE 1
    IN  /\ WriteStats(("current_streak" :> new_streak) @@ ("last_activity_date" :> now))
        /\ resp' = Response("update_streak", StatsUser, NoneStr, <<>>, 200, <<>>)
        /\ UNCHANGED <<shares, comments, now, calls>>

\* The next day begins.
NextDay ==
    /\ now <= MaxTime
    /\ now' = now + 1
    /\ UNCHANGED <<shares, comments, resp, stats, achievements, calls>>

\* The bodies POST /api/stats/update is sent: a counter, three counters at
\* once, or the streaks.
StatsUpdates ==
    {("ideas_created" :> 10),
     ("ideas_completed" :> 1) @@ ("ai_suggestions_applied" :> 5)
         @@ ("collaborations_count" :> 1),
     ("current_streak" :> 7),
     ("longest_streak" :> 1),
     ("current_streak" :> MaxStat) @@ ("longest_streak" :> 1)}

\* The fields and amounts POST /api/stats/increment is sent, and the
\* amounts of POST /api/stats/award-xp.
IncrementFields == {"ideas_created", "longest_streak"}
Amounts == {0 - 1, 1, 2}
XpAmounts == {XpPerLevel, 0 - XpPerLevel}

InitStats == /\ shares = {}
             /\ comments = <<>>
             /\ now = 1
             /\ resp = NoResponse
             /\ AtRest

NextStats ==
    \/ NextDay
    \/ \E u \in StatsUpdates : UpdateUserStats(u)
    \/ \E f \in IncrementFields, a \in Amounts : IncrementStat(f, a)
    \/ \E x \in XpAmounts : AwardXp(x)
    \/ UpdateStreak

SpecStats == InitStats /\ [][NextStats]_vars

\* increment_stat, its first store call: the row is read (and created if
\* the user has none) and the handler keeps the field's value.
IncrementRead(p, field, amount) ==
    LET current_stats == GetOrCreateUserStats(stats)
    IN  /\ calls[p].pc = "idle"
        /\ stats' = current_stats
        /\ calls' = [calls EXCEPT ![p] =
               Call("increment_stat", "write", StatsUser, field, amount,
                    current_stats[field], None)]
        /\ UNCHANGED <<shares, comments, now, resp, achievements>>

\* increment_stat, the rest: update_user_stats reads the row again, writes
\* the value kept plus the amount, and checks the achievements.
IncrementWrite(p) ==
    LET c == calls[p]
        current_stats == GetOrCreateUserStats(stats)
        row == StatsUpdated(current_stats, current_stats,
                            (c.target :> c.seen + c.arg) @@ ("last_activity_date" :> now))
    IN  /\ c.op = "increment_stat" /\ c.pc = "write"
        /\ stats' = row
        /\ achievements' = CheckAndUnlockAchievements(achievements, row)
        /\ calls' = [calls EXCEPT ![p] = Done(c, 200)]
        /\ UNCHANGED <<shares, comments, now, resp>>

\* Two workers, each serving one increment of the user's statistics.
NextIncrement ==
    \/ \E p \in Procs, f \in IncrementFields, a \in Amounts : IncrementRead(p, f, a)
    \/ \E p \in Procs : IncrementWrite(p)

SpecIncrement == InitStats /\ [][NextIncrement]_vars

\* C24: an achievement is held whenever its documented condition is met
\* by the stored statistics.
C24_AchievementsHeld ==
    stats.exists =>
        /\ stats.ideas_created >= 1 => "first_idea" \in achievements
        /\ stats.ideas_created >= 10 => "idea_master_10" \in achievements
        /\ stats.ideas_completed >= 1 => "first_completion" \in achievements
        /\ stats.current_streak >= 7 => "week_streak" \in achievements
        /\ stats.collaborations_count >= 1 => "collaborator" \in achievements
        /\ stats.ai_suggestions_applied >= 5 => "ai_adopter" \in achievements

\* C29: once two increments of one field, by a and by b, have both been
\* served, the field is a + b above the 0 it started from.
C29_NoLostIncrement ==
    (/\ \A p \in Procs : calls[p].op = "increment_stat" /\ calls[p].pc = "done"
     /\ calls["p1"].target = calls["p2"].target) =>
        stats[calls["p1"].target] = calls["p1"].arg + calls["p2"].arg

\* C30: the longest streak is never below the current one.
C30_LongestAtLeastCurrent ==
    stats.exists => stats.longest_streak >= stats.current_streak

====
